---------------------------- MODULE Spec2Model ----------------------------
(***************************************************************************)
(* aralog: a line logger that serialises writers on one mutex per Logger   *)
(* and rotates a file sink by size.  Model of src/aralog.go.               *)
(*                                                                         *)
(* Byte strings are sequences of pieces [s, n]: the text s standing for n  *)
(* bytes (a single character has n = 1, a run of filler bytes has n > 1),  *)
(* so that lines longer than the 1 MiB rotation floor stay representable.  *)
(* The operating system is part of the state: the set of existing file     *)
(* names and the table of opened handles.  Close fails on a handle that is *)
(* already closed, Rename on an absent source, OpenFile (no O_CREATE) on   *)
(* an absent name, Write on a closed handle; Rename, OpenFile and Write    *)
(* may also fail for reasons of the environment (ioOK).                    *)
(*                                                                         *)
(* rollFile's two warning appends (lines 223 and 232) pass a string and a  *)
(* rune to append on a []byte; they are modelled as what they are written  *)
(* to do: append the warning text and a newline to l.buf.                  *)
(*                                                                         *)
(* l.size is a uint; the model's sizes stay far below 2^31, so its         *)
(* wrap-around is not covered.                                             *)
(*                                                                         *)
(* Specifications, all over the same actions, differ in what callers and   *)
(* the environment do (the variable inputs): Spec (1 MiB passed to         *)
(* NewRollFileLogger, MaxEmits calls of Debug with long messages);         *)
(* SpecFloor (every kind of maxsize, FloorEmits calls); SpecNames (as Spec,*)
(* and the environment may create the files of the fallback names that     *)
(* rollFile opens after a failed Rename); SpecText (TextEmits calls with   *)
(* short messages, every kind of flag word and caller path); SpecFair      *)
(* (FairLoggers Loggers, under fair scheduling, for liveness).             *)
(*                                                                         *)
(* The properties that hold were also run to completion with one bound     *)
(* raised at a time: under Spec MaxEmits = 3 (11,112,001 states) and       *)
(* NumLoggers = 3 (3,304,799 states); under SpecFloor FloorEmits = 2       *)
(* (1,337,529 states); under SpecText TextEmits = 2 (1,446,548 states);    *)
(* under SpecFair FairLoggers = 2 (223,847 states).  Under SpecNames with  *)
(* MaxEmits = 3 the run was stopped after 27 million states, none of them  *)
(* violating an invariant.                                                 *)
(***************************************************************************)
EXTENDS Integers, Sequences, FiniteSets, TLC

\* ------------------------------------------------------------------ bounds
NumThreads == 2
NumLoggers == 2
MaxEmits == 2
FloorEmits == 1
FairLoggers == 1
TextEmits == 1
TextLoggers == 1

Threads == 1 .. NumThreads
Loggers == 1 .. NumLoggers

\* --------------------------------------------------------- program constants
Ldate == 1
Ltime == 2
Lmicroseconds == 4
Llongfile == 8
Lshortfile == 16
MinMaxsize == 1048576
DefaultMaxsize == 10485760

\* l.flag & bit != 0, for a single bit
HasFlag(f, bit) == (f \div bit) % 2 = 1

\* ------------------------------------------------------------- byte strings
Lit(s, n) == << [s |-> s, n |-> n] >>
Ch(c) == [s |-> c, n |-> 1]

RECURSIVE ByteLen(_)
ByteLen(b) == IF b = << >> THEN 0 ELSE Head(b).n + ByteLen(Tail(b))

DigitChars == << "0", "1", "2", "3", "4", "5", "6", "7", "8", "9" >>

RECURSIVE itoaLoop(_, _, _)
itoaLoop(u, wid, acc) ==
    IF u > 0 \/ wid > 0
    THEN itoaLoop(u \div 10, wid - 1, << Ch(DigitChars[(u % 10) + 1]) >> \o acc)
    ELSE acc

itoa(i, wid) ==
    IF i = 0 /\ wid <= 1 THEN << Ch("0") >> ELSE itoaLoop(i, wid, << >>)

\* for i := len(file) - 1; i > 0; i-- (i is the 0-based index)
RECURSIVE shortFile(_, _)
shortFile(file, i) ==
    IF i > 0
    THEN IF file[i + 1].s = "/"
         THEN SubSeq(file, i + 2, Len(file))
         ELSE shortFile(file, i - 1)
    ELSE file

formatHeader(prefix, f, t, file, line) ==
    LET date == IF HasFlag(f, Ldate)
                THEN itoa(t.year, 4) \o << Ch("/") >> \o itoa(t.month, 2)
                     \o << Ch("/") >> \o itoa(t.day, 2) \o << Ch(" ") >>
                ELSE << >>
        clock == IF HasFlag(f, Ltime) \/ HasFlag(f, Lmicroseconds)
                 THEN itoa(t.hour, 2) \o << Ch(":") >> \o itoa(t.min, 2)
                      \o << Ch(":") >> \o itoa(t.sec, 2)
                      \o (IF HasFlag(f, Lmicroseconds)
                          THEN << Ch(".") >> \o itoa(t.nsec \div 1000, 6)
                          ELSE << >>)
                      \o << Ch(" ") >>
                 ELSE << >>
        name == IF HasFlag(f, Lshortfile)
                THEN shortFile(file, Len(file) - 1)
                ELSE file
        where == IF HasFlag(f, Lshortfile) \/ HasFlag(f, Llongfile)
                 THEN name \o << Ch(":") >> \o itoa(line, -1)
                      \o << Ch(":"), Ch(" ") >>
                 ELSE << >>
    IN  prefix \o date \o clock \o where

\* mutant: a newline is appended to every message that is not empty
formatLineNoCheck(prefix, f, t, file, line, s) ==
    formatHeader(prefix, f, t, file, line) \o s
    \o (IF Len(s) > 0 THEN << Ch("\n") >> ELSE << >>)

\* l.buf after lines 196..201 of output
formatLine(prefix, f, t, file, line, s) ==
    formatHeader(prefix, f, t, file, line) \o s
    \o (IF Len(s) > 0 /\ s[Len(s)].s # "\n" THEN << Ch("\n") >> ELSE << >>)


\* -------------------------------------------------------------- input sets
NL == Ch("\n")

\* the strings passed to Debug: one unterminated, two of which exceed
\* MinMaxsize together; and one already ending in a newline, which under
\* flag Ltime makes a line of exactly MinMaxsize bytes ("01:23:23 " is 9
\* bytes) and with a file:line header a longer one
Messages ==
    { << [s |-> "m", n |-> 600000] >>,
      << [s |-> "x", n |-> MinMaxsize - 10], NL >> }

\* time.Now()
Times ==
    { [year |-> 2009, month |-> 1, day |-> 23, hour |-> 1, min |-> 23,
       sec |-> 23, nsec |-> 123123000, unix |-> 1232673803] }

\* what runtime.Caller(calldepth) returns: file, line, ok
CallerResults ==
    { [ok |-> TRUE, line |-> 23,
       file |-> << Ch("/"), Ch("a"), Ch("/"), Ch("d"), Ch("."), Ch("g"), Ch("o") >>],
      [ok |-> FALSE, line |-> 0, file |-> << >>] }

\* each Logger is given a file of its own (two Loggers on one file are
\* excluded by the documentation)
PathOf(l) == IF l % 2 = 1 THEN "a.log" ELSE "b.log"
Paths == { PathOf(l) : l \in Loggers }
FlagInputs == { Ltime, Llongfile + Ltime }
MaxsizeInputs == { 0, 512000, MinMaxsize - 1, MinMaxsize, MinMaxsize + 1, DefaultMaxsize }
Prefixes == { Lit("app ", 4) }

\* short messages: empty, unterminated, terminated, with a newline inside;
\* and a long one
Str(chars) == [i \in 1 .. Len(chars) |-> Ch(chars[i])]
TextMessages ==
    { Str(<< >>), Str(<< "a" >>), Str(<< "\n" >>), Str(<< "a", "\n" >>),
      Str(<< "\n", "a" >>), Str(<< "\n", "\n" >>),
      << [s |-> "x", n |-> MinMaxsize - 10], NL >> }
TextFlags ==
    { 0, Ltime, Llongfile, Lshortfile, Llongfile + Lshortfile,
      Ldate + Ltime + Lmicroseconds + Lshortfile }
\* caller paths: no separator, one at index 0 only, one inside, several,
\* one at the end
TextCallers ==
    { [ok |-> TRUE, line |-> 23, file |-> Str(f)] :
        f \in { << "d", ".", "g", "o" >>, << "/", "d", ".", "g", "o" >>,
                << "a", "/", "d" >>, << "/", "a", "/", "d" >>,
                << "a", "/" >>, << "/" >> } }
    \cup { [ok |-> FALSE, line |-> 0, file |-> << >>] }

\* ------------------------------------------------------------- file system
\* string(i) for an integer i: the UTF-8 of code point i, U+FFFD if invalid
Rune(i) ==
    IF i < 0 \/ i > 1114111 \/ (i >= 55296 /\ i <= 57343) THEN 65533 ELSE i

FileName(p, suffix) == [path |-> p, suffix |-> suffix]
NoName == FileName("", << >>)

\* l.path + string(now.Year()) + ... + string(now.Second())
RolledName(p, t) ==
    FileName(p, << Rune(t.year), Rune(t.month), Rune(t.day),
                   Rune(t.hour), Rune(t.min), Rune(t.sec) >>)

\* l.path + string(now.Unix())
UnixName(p, t) == FileName(p, << Rune(t.unix) >>)

\* a file name holding a NUL byte is rejected by the system call layer
HasNul(name) == \E i \in 1 .. Len(name.suffix) : name.suffix[i] = 0

NoError == [op |-> "", msg |-> ""]
Error(op, msg) == [op |-> op, msg |-> msg]
\* err.Error(), without the path the operating system puts in it
ErrorText(e) == Lit(e.op \o ": " \o e.msg, Len(e.op) + 2 + Len(e.msg))

CloseWarning(e) ==
    Lit("[XXX] ARALOGGER ERROR: Close current output file failed, ", 57)
    \o ErrorText(e) \o << NL >>
RenameWarning(e) ==
    Lit("[XXX] ARALOGGER ERROR: Rolling file failed, ", 44)
    \o ErrorText(e) \o << NL >>

\* ------------------------------------------------------------------- state
VARIABLES
    exists,          \* file system: the names that exist
    handles,         \* opened sinks: [name, open, file] and their history:
                     \*   owner (the Logger it was opened for), written (bytes
                     \*   committed through it), closedBy (the Logger whose
                     \*   rollFile closed it, 0 if none)
    currentOutFile,  \* package variable: index into handles, 0 = nil
    made,            \* Logger l has been constructed
    mu,              \* l.mu: 0 = unlocked, else the thread that locked it
    prefix, flag, out, buf, size, path, maxsize,   \* the Logger's fields
    pc,              \* where each thread is in Debug/output/rollFile
    frame,           \* each thread's locals (l, s, now, file, line, newPath,
                     \*   err) and what it observed during the call (opened:
                     \*   the outcome of rollFile's OpenFile; openOut and
                     \*   openSize: l.out and l.size when it was called;
                     \*   envOK: the environment refused none of its
                     \*   operations; first, last: the lock's acquisition
                     \*   count at the call's Lock at entry and at its
                     \*   Lock before the buffer is built)
    stats,           \* history per Logger: what its constructor returned,
                     \*   calls, Writes, I/O failures, the number of times
                     \*   its lock was acquired and when the call that wrote
                     \*   last acquired it
    inputs           \* what the callers do: the maxsize values they pass to
                     \*   NewRollFileLogger and the number of Debug calls;
                     \*   the file names the environment creates, the
                     \*   number of Loggers the program constructs, the
                     \*   messages and flags callers pass and what
                     \*   runtime.Caller returns

loggerVars == << made, mu, prefix, flag, out, buf, size, path, maxsize >>
osVars == << exists, handles, currentOutFile >>
vars == << exists, handles, currentOutFile, made, mu, prefix, flag, out, buf,
           size, path, maxsize, pc, frame, stats, inputs >>

NoFrame ==
    [l |-> 0, s |-> << >>, now |-> CHOOSE t \in Times : TRUE, file |-> << >>,
     line |-> 0, newPath |-> NoName, err |-> NoError,
     before |-> 0, pending |-> 0, out0 |-> 0, fsops |-> 0,
     closeOK |-> TRUE, renameOK |-> TRUE, openIO |-> TRUE, envOK |-> TRUE,
     opened |-> "", openOut |-> 0, openSize |-> 0,
     first |-> 0, last |-> 0, prevFirst |-> 0, prevLast |-> 0,
     wrote |-> 0, writeOK |-> TRUE, data |-> << >>, h |-> 0]

NoStats ==
    [ctor |-> "", given |-> 0, arg |-> 0, calls |-> 0, writes |-> 0,
     acquired |-> 0, lastFirst |-> 0, lastLast |-> 0,
     ioFailed |-> FALSE, writeFailed |-> FALSE, maxLine |-> 0]

Start ==
    /\ exists = { FileName(p, << >>) : p \in Paths }
    /\ handles = << >>
    /\ currentOutFile = 0
    /\ made = [l \in Loggers |-> FALSE]
    /\ mu = [l \in Loggers |-> 0]
    /\ prefix = [l \in Loggers |-> << >>]
    /\ flag = [l \in Loggers |-> 0]
    /\ out = [l \in Loggers |-> 0]
    /\ buf = [l \in Loggers |-> << >>]
    /\ size = [l \in Loggers |-> 0]
    /\ path = [l \in Loggers |-> ""]
    /\ maxsize = [l \in Loggers |-> 0]
    /\ pc = [t \in Threads |-> "idle"]
    /\ frame = [t \in Threads |-> NoFrame]
    /\ stats = [l \in Loggers |-> NoStats]

\* ------------------------------------------------------------ environment
\* another process creates (an empty) file: the constructors and rollFile
\* open without O_CREATE, so only the environment makes files
EnvCreate(name) ==
    /\ name \notin exists
    /\ exists' = exists \cup { name }
    /\ UNCHANGED << handles, currentOutFile, loggerVars, pc, frame, stats,
                    inputs >>

NewHandle(name, isFile, l) ==
    [name |-> name, open |-> TRUE, file |-> isFile, owner |-> l, written |-> 0,
     closedBy |-> 0]

\* ------------------------------------------------------------ constructors
\* slot l stands for the l-th call of a constructor: it holds the Logger
\* the call returned, or stays empty when the call returned an error
NextSlot(l) ==
    /\ stats[l].ctor = "" /\ l <= inputs.loggers
    /\ IF l = 1 THEN TRUE ELSE stats[l - 1].ctor # ""

\* &Logger{out: o, prefix: pre, flag: f, path: p, maxsize: m}
Construct(l, o, pre, f, p, m, arg) ==
    /\ made' = [made EXCEPT ![l] = TRUE]
    /\ out' = [out EXCEPT ![l] = o]
    /\ prefix' = [prefix EXCEPT ![l] = pre]
    /\ flag' = [flag EXCEPT ![l] = f]
    /\ path' = [path EXCEPT ![l] = p]
    /\ maxsize' = [maxsize EXCEPT ![l] = m]
    /\ stats' = [stats EXCEPT ![l].ctor = "ok", ![l].given = o,
                              ![l].arg = arg]
    /\ UNCHANGED << mu, buf, size >>

\* New(out, prefix, flag): out is a writer of the caller's, here a fresh one
New(l, pre, f) ==
    /\ NextSlot(l)
    /\ handles' = Append(handles, NewHandle(NoName, FALSE, l))
    /\ Construct(l, Len(handles) + 1, pre, f, "", 0, 0)
    /\ UNCHANGED << exists, currentOutFile, pc, frame, inputs >>

\* os.OpenFile(name, O_APPEND|O_WRONLY, 0600): no O_CREATE
CanOpen(name) == name \in exists /\ ~HasNul(name)

\* mutant: a maxsize below the floor is raised to the floor, not the default
FloorToMin(m) == IF m < MinMaxsize THEN MinMaxsize ELSE m

\* the threshold NewRollFileLogger stores for a given maxsize
Floor(m) == IF m < MinMaxsize THEN DefaultMaxsize ELSE m

\* the environment may refuse an operation that could succeed
Outcomes(possible) == IF possible THEN BOOLEAN ELSE { TRUE }

NewRollFileLogger(l, p, m, f) ==
    /\ NextSlot(l)
    /\ \E ioOK \in Outcomes(CanOpen(FileName(p, << >>))) :
         IF CanOpen(FileName(p, << >>)) /\ ioOK
         THEN /\ handles' = Append(handles, NewHandle(FileName(p, << >>), TRUE, l))
              /\ currentOutFile' = Len(handles) + 1
              /\ Construct(l, Len(handles) + 1, << >>, f, p, Floor(m), m)
              /\ UNCHANGED << exists, pc, frame, inputs >>
         ELSE /\ stats' = [stats EXCEPT ![l].ctor = "error"]
              /\ UNCHANGED << osVars, loggerVars, pc, frame, inputs >>

NewFileLogger(l, p, f) == NewRollFileLogger(l, p, DefaultMaxsize, f)

\* ------------------------------------------------------------------- emit
FileFlags(l) == HasFlag(flag[l], Lshortfile) \/ HasFlag(flag[l], Llongfile)

Goto(t, where) == pc' = [pc EXCEPT ![t] = where]

TotalCalls == LET RECURSIVE Sum(_)
                  Sum(n) == IF n = 0 THEN 0 ELSE stats[n].calls + Sum(n - 1)
              IN  Sum(NumLoggers)

\* Debug(s) -> output(2, s): now := time.Now().  Threads are interchangeable:
\* a call runs on the lowest-numbered idle thread.
Debug(t, l, s) ==
    /\ pc[t] = "idle"
    /\ \A u \in Threads : u < t => pc[u] # "idle"
    /\ made[l]
    /\ TotalCalls < inputs.emits
    /\ \E now \in Times :
         frame' = [frame EXCEPT ![t] = [NoFrame EXCEPT !.l = l, !.s = s,
                                                        !.now = now]]
    /\ stats' = [stats EXCEPT ![l].calls = @ + 1]
    /\ Goto(t, "lock")
    /\ UNCHANGED << osVars, loggerVars, inputs >>

\* mutant: the first Lock does not wait for the mutex
LockNoWait(t) ==
    LET l == frame[t].l IN
    /\ pc[t] = "lock"
    /\ mu' = [mu EXCEPT ![l] = t]
    /\ stats' = [stats EXCEPT ![l].acquired = @ + 1]
    /\ frame' = [frame EXCEPT ![t].first = stats[l].acquired + 1,
                              ![t].last = stats[l].acquired + 1]
    /\ Goto(t, IF FileFlags(l) THEN "caller" ELSE "build")
    /\ UNCHANGED << osVars, made, prefix, flag, out, buf, size, path, maxsize,
                    inputs >>

\* l.mu.Lock()
Lock(t) ==
    LET l == frame[t].l IN
    /\ pc[t] = "lock"
    /\ mu[l] = 0
    /\ mu' = [mu EXCEPT ![l] = t]
    /\ stats' = [stats EXCEPT ![l].acquired = @ + 1]
    /\ frame' = [frame EXCEPT ![t].first = stats[l].acquired + 1,
                              ![t].last = stats[l].acquired + 1]
    /\ Goto(t, IF FileFlags(l) THEN "caller" ELSE "build")
    /\ UNCHANGED << osVars, made, prefix, flag, out, buf, size, path, maxsize,
                    inputs >>

\* l.mu.Unlock(); _, file, line, ok = runtime.Caller(calldepth); if !ok {...}
Caller(t) ==
    LET l == frame[t].l IN
    /\ pc[t] = "caller"
    /\ mu' = [mu EXCEPT ![l] = 0]
    /\ \E r \in inputs.callers :
         frame' = [frame EXCEPT
                     ![t].file = IF r.ok THEN r.file
                                 ELSE << Ch("?"), Ch("?"), Ch("?") >>,
                     ![t].line = IF r.ok THEN r.line ELSE 0]
    /\ Goto(t, "relock")
    /\ UNCHANGED << osVars, made, prefix, flag, out, buf, size, path, maxsize,
                    stats, inputs >>

\* mutant: the lock is not taken again after runtime.Caller
RelockNoWait(t) ==
    /\ pc[t] = "relock"
    /\ Goto(t, "build")
    /\ UNCHANGED << osVars, loggerVars, frame, stats, inputs >>

\* l.mu.Lock() after runtime.Caller
Relock(t) ==
    LET l == frame[t].l IN
    /\ pc[t] = "relock"
    /\ mu[l] = 0
    /\ mu' = [mu EXCEPT ![l] = t]
    /\ stats' = [stats EXCEPT ![l].acquired = @ + 1]
    /\ frame' = [frame EXCEPT ![t].last = stats[l].acquired + 1]
    /\ Goto(t, "build")
    /\ UNCHANGED << osVars, made, prefix, flag, out, buf, size, path, maxsize,
                    inputs >>

\* the line this call is to emit, from its own arguments
OwnLine(t) ==
    LET l == frame[t].l IN
    formatLine(prefix[l], flag[l], frame[t].now, frame[t].file, frame[t].line,
               frame[t].s)

Max(a, b) == IF a > b THEN a ELSE b

\* mutant: the buffer is not truncated before the line is built
BuildNoReset(t) ==
    LET l == frame[t].l IN
    /\ pc[t] = "build"
    /\ buf' = [buf EXCEPT ![l] = @ \o OwnLine(t)]
    /\ frame' = [frame EXCEPT ![t].before = size[l],
                              ![t].pending = ByteLen(OwnLine(t)),
                              ![t].out0 = out[l]]
    /\ stats' = [stats EXCEPT ![l].maxLine = Max(@, ByteLen(OwnLine(t)))]
    /\ Goto(t, IF path[l] # "" THEN "roll" ELSE "write")
    /\ UNCHANGED << osVars, made, mu, prefix, flag, out, size, path, maxsize,
                    inputs >>

\* mutant: rollFile is called whether or not the Logger has a path
BuildAlwaysRoll(t) ==
    LET l == frame[t].l IN
    /\ pc[t] = "build"
    /\ buf' = [buf EXCEPT ![l] = OwnLine(t)]
    /\ frame' = [frame EXCEPT ![t].before = size[l],
                              ![t].pending = ByteLen(OwnLine(t)),
                              ![t].out0 = out[l]]
    /\ stats' = [stats EXCEPT ![l].maxLine = Max(@, ByteLen(OwnLine(t)))]
    /\ Goto(t, "roll")
    /\ UNCHANGED << osVars, made, mu, prefix, flag, out, size, path, maxsize,
                    inputs >>

\* l.buf = l.buf[:0]; formatHeader; append s; append '\n'; if len(l.path) > 0
Build(t) ==
    LET l == frame[t].l IN
    /\ pc[t] = "build"
    /\ buf' = [buf EXCEPT ![l] = OwnLine(t)]
    /\ frame' = [frame EXCEPT ![t].before = size[l],
                              ![t].pending = ByteLen(OwnLine(t)),
                              ![t].out0 = out[l]]
    /\ stats' = [stats EXCEPT ![l].maxLine = Max(@, ByteLen(OwnLine(t)))]
    /\ Goto(t, IF path[l] # "" THEN "roll" ELSE "write")
    /\ UNCHANGED << osVars, made, mu, prefix, flag, out, size, path, maxsize,
                    inputs >>

\* mutant: the file is rotated when the size reaches maxsize (>= for >)
RollFileAtMaxsize(t) ==
    LET l == frame[t].l
        n == size[l] + ByteLen(buf[l])
    IN  /\ pc[t] = "roll"
        /\ size' = [size EXCEPT ![l] = n]
        /\ Goto(t, IF n >= maxsize[l] THEN "close" ELSE "write")
        /\ UNCHANGED << osVars, made, mu, prefix, flag, out, buf, path, maxsize,
                        frame, stats, inputs >>

\* mutant: the size is counted but never compared with maxsize
RollFileNoCheck(t) ==
    LET l == frame[t].l IN
    /\ pc[t] = "roll"
    /\ size' = [size EXCEPT ![l] = @ + ByteLen(buf[l])]
    /\ Goto(t, "write")
    /\ UNCHANGED << osVars, made, mu, prefix, flag, out, buf, path, maxsize,
                    frame, stats, inputs >>

\* rollFile: l.size += uint(len(l.buf)); if l.size > l.maxsize
RollFile(t) ==
    LET l == frame[t].l
        n == size[l] + ByteLen(buf[l])
    IN  /\ pc[t] = "roll"
        /\ size' = [size EXCEPT ![l] = n]
        /\ Goto(t, IF n > maxsize[l] THEN "close" ELSE "write")
        /\ UNCHANGED << osVars, made, mu, prefix, flag, out, buf, path, maxsize,
                        frame, stats, inputs >>

\* if currentOutFile != nil { err := currentOutFile.Close(); ... }
RollClose(t) ==
    LET l == frame[t].l
        h == currentOutFile
    IN  /\ pc[t] = "close"
        /\ IF h = 0
           THEN UNCHANGED << handles, buf, frame, stats >>
           ELSE IF handles[h].open
                THEN /\ handles' = [handles EXCEPT ![h].open = FALSE,
                                                   ![h].closedBy = l]
                     /\ frame' = [frame EXCEPT ![t].fsops = @ + 1]
                     /\ UNCHANGED << buf, stats >>
                ELSE /\ buf' = [buf EXCEPT ![l] =
                                  @ \o CloseWarning(Error("close", "file already closed"))]
                     /\ frame' = [frame EXCEPT ![t].closeOK = FALSE,
                                               ![t].fsops = @ + 1]
                     /\ stats' = [stats EXCEPT ![l].ioFailed = TRUE]
                     /\ UNCHANGED handles
        /\ Goto(t, "rename")
        /\ UNCHANGED << exists, currentOutFile, made, mu, prefix, flag, out, size,
                        path, maxsize, inputs >>

\* newPath := l.path; err := os.Rename(l.path, l.path + string(now.Year()) ...)
RollRename(t) ==
    LET l == frame[t].l
        from == FileName(path[l], << >>)
        to == RolledName(path[l], frame[t].now)
    IN  /\ pc[t] = "rename"
        /\ \E ioOK \in Outcomes(from \in exists /\ ~HasNul(to)) :
             IF from \in exists /\ ~HasNul(to) /\ ioOK
             THEN /\ exists' = (exists \ { from }) \cup { to }
                  /\ frame' = [frame EXCEPT ![t].newPath = from,
                                            ![t].fsops = @ + 1]
                  /\ UNCHANGED << buf, stats >>
             ELSE /\ buf' = [buf EXCEPT ![l] =
                               @ \o RenameWarning(Error("rename", "failed"))]
                  /\ frame' = [frame EXCEPT ![t].newPath =
                                 UnixName(path[l], frame[t].now),
                                            ![t].renameOK = FALSE,
                                            ![t].envOK = @ /\ ioOK,
                                            ![t].fsops = @ + 1]
                  /\ stats' = [stats EXCEPT ![l].ioFailed = TRUE]
                  /\ UNCHANGED exists
        /\ Goto(t, "open")
        /\ UNCHANGED << handles, currentOutFile, made, mu, prefix, flag, out, size,
                        path, maxsize, inputs >>

\* mutant: the new file becomes currentOutFile but not the Logger's sink
RollOpenKeepsSink(t) ==
    LET l == frame[t].l
        name == frame[t].newPath
    IN  /\ pc[t] = "open"
        /\ \E ioOK \in Outcomes(CanOpen(name)) :
             IF CanOpen(name) /\ ioOK
             THEN /\ handles' = Append(handles, NewHandle(name, TRUE, l))
                  /\ currentOutFile' = Len(handles) + 1
                  /\ out' = out
                  /\ size' = [size EXCEPT ![l] = ByteLen(buf[l])]
                  /\ frame' = [frame EXCEPT ![t].opened = "ok",
                                            ![t].openOut = out[l],
                                            ![t].openSize = size[l],
                                            ![t].fsops = @ + 1]
                  /\ Goto(t, "write")
                  /\ UNCHANGED stats
             ELSE /\ frame' = [frame EXCEPT ![t].err = Error("open", "failed"),
                                            ![t].opened = "failed",
                                            ![t].openOut = out[l],
                                            ![t].openSize = size[l],
                                            ![t].openIO = ioOK,
                                            ![t].envOK = @ /\ ioOK,
                                            ![t].fsops = @ + 1]
                  /\ stats' = [stats EXCEPT ![l].ioFailed = TRUE]
                  /\ Goto(t, "unlock")
                  /\ UNCHANGED << handles, currentOutFile, out, size >>
        /\ UNCHANGED << exists, made, mu, prefix, flag, buf, path, maxsize,
                        inputs >>

\* mutant: the size is set to 0 before OpenFile is called, so also when it
\* fails
RollOpenResetsSize(t) ==
    LET l == frame[t].l
        name == frame[t].newPath
    IN  /\ pc[t] = "open"
        /\ \E ioOK \in Outcomes(CanOpen(name)) :
             IF CanOpen(name) /\ ioOK
             THEN /\ handles' = Append(handles, NewHandle(name, TRUE, l))
                  /\ currentOutFile' = Len(handles) + 1
                  /\ out' = [out EXCEPT ![l] = Len(handles) + 1]
                  /\ size' = [size EXCEPT ![l] = ByteLen(buf[l])]
                  /\ frame' = [frame EXCEPT ![t].opened = "ok",
                                            ![t].openOut = out[l],
                                            ![t].openSize = size[l],
                                            ![t].fsops = @ + 1]
                  /\ Goto(t, "write")
                  /\ UNCHANGED stats
             ELSE /\ frame' = [frame EXCEPT ![t].err = Error("open", "failed"),
                                            ![t].opened = "failed",
                                            ![t].openOut = out[l],
                                            ![t].openSize = size[l],
                                            ![t].openIO = ioOK,
                                            ![t].envOK = @ /\ ioOK,
                                            ![t].fsops = @ + 1]
                  /\ stats' = [stats EXCEPT ![l].ioFailed = TRUE]
                  /\ Goto(t, "unlock")
                  /\ size' = [size EXCEPT ![l] = 0]
                  /\ UNCHANGED << handles, currentOutFile, out >>
        /\ UNCHANGED << exists, made, mu, prefix, flag, buf, path, maxsize,
                        inputs >>

\* newOut, err := os.OpenFile(newPath, ...); if err != nil { return err };
\* currentOutFile = newOut; l.out = newOut; l.size = uint(len(l.buf))
RollOpen(t) ==
    LET l == frame[t].l
        name == frame[t].newPath
    IN  /\ pc[t] = "open"
        /\ \E ioOK \in Outcomes(CanOpen(name)) :
             IF CanOpen(name) /\ ioOK
             THEN /\ handles' = Append(handles, NewHandle(name, TRUE, l))
                  /\ currentOutFile' = Len(handles) + 1
                  /\ out' = [out EXCEPT ![l] = Len(handles) + 1]
                  /\ size' = [size EXCEPT ![l] = ByteLen(buf[l])]
                  /\ frame' = [frame EXCEPT ![t].opened = "ok",
                                            ![t].openOut = out[l],
                                            ![t].openSize = size[l],
                                            ![t].fsops = @ + 1]
                  /\ Goto(t, "write")
                  /\ UNCHANGED stats
             ELSE /\ frame' = [frame EXCEPT ![t].err = Error("open", "failed"),
                                            ![t].opened = "failed",
                                            ![t].openOut = out[l],
                                            ![t].openSize = size[l],
                                            ![t].openIO = ioOK,
                                            ![t].envOK = @ /\ ioOK,
                                            ![t].fsops = @ + 1]
                  /\ stats' = [stats EXCEPT ![l].ioFailed = TRUE]
                  /\ Goto(t, "unlock")
                  /\ UNCHANGED << handles, currentOutFile, out, size >>
        /\ UNCHANGED << exists, made, mu, prefix, flag, buf, path, maxsize,
                        inputs >>

\* mutant: the error of Write is dropped and nil returned
WriteDropsError(t) ==
    LET l == frame[t].l
        h == out[l]
    IN  /\ pc[t] = "write"
        /\ \E ioOK \in Outcomes(handles[h].open) :
             LET ok == handles[h].open /\ ioOK IN
             /\ handles' = [handles EXCEPT ![h].written =
                              IF ok THEN @ + ByteLen(buf[l]) ELSE @]
             /\ frame' = [frame EXCEPT ![t].err = NoError,
                                       ![t].wrote = @ + 1, ![t].writeOK = ok,
                                       ![t].envOK = @ /\ ioOK,
                                       ![t].data = buf[l],
                                       ![t].h = h,
                                       ![t].prevFirst = stats[l].lastFirst,
                                       ![t].prevLast = stats[l].lastLast]
             /\ stats' = [stats EXCEPT ![l].writes = @ + 1,
                                       ![l].lastFirst = frame[t].first,
                                       ![l].lastLast = frame[t].last,
                                       ![l].ioFailed = @ \/ ~ok,
                                       ![l].writeFailed = @ \/ ~ok]
        /\ Goto(t, "unlock")
        /\ UNCHANGED << exists, currentOutFile, loggerVars, inputs >>

\* _, err := l.out.Write(l.buf)
Write(t) ==
    LET l == frame[t].l
        h == out[l]
    IN  /\ pc[t] = "write"
        /\ \E ioOK \in Outcomes(handles[h].open) :
             LET ok == handles[h].open /\ ioOK IN
             /\ handles' = [handles EXCEPT ![h].written =
                              IF ok THEN @ + ByteLen(buf[l]) ELSE @]
             /\ frame' = [frame EXCEPT ![t].err =
                            IF ok THEN NoError ELSE Error("write", "failed"),
                                       ![t].wrote = @ + 1, ![t].writeOK = ok,
                                       ![t].envOK = @ /\ ioOK,
                                       ![t].data = buf[l],
                                       ![t].h = h,
                                       ![t].prevFirst = stats[l].lastFirst,
                                       ![t].prevLast = stats[l].lastLast]
             /\ stats' = [stats EXCEPT ![l].writes = @ + 1,
                                       ![l].lastFirst = frame[t].first,
                                       ![l].lastLast = frame[t].last,
                                       ![l].ioFailed = @ \/ ~ok,
                                       ![l].writeFailed = @ \/ ~ok]
        /\ Goto(t, "unlock")
        /\ UNCHANGED << exists, currentOutFile, loggerVars, inputs >>

\* mutant: the lock is released before a normal return only, not when
\* rollFile returned an error (an Unlock at the end instead of the defer)
UnlockUnlessError(t) ==
    LET l == frame[t].l IN
    /\ pc[t] = "unlock"
    /\ mu' = [mu EXCEPT ![l] = IF frame[t].opened = "failed" THEN @ ELSE 0]
    /\ frame' = [frame EXCEPT ![t] = NoFrame]
    /\ Goto(t, "idle")
    /\ UNCHANGED << osVars, made, prefix, flag, out, buf, size, path, maxsize,
                    stats, inputs >>

\* defer l.mu.Unlock(); return err
Unlock(t) ==
    LET l == frame[t].l IN
    /\ pc[t] = "unlock"
    /\ mu' = [mu EXCEPT ![l] = 0]
    /\ frame' = [frame EXCEPT ![t] = NoFrame]
    /\ Goto(t, "idle")
    /\ UNCHANGED << osVars, made, prefix, flag, out, buf, size, path, maxsize,
                    stats, inputs >>

Next ==
    \/ \E name \in inputs.names : EnvCreate(name)
    \/ \E l \in Loggers, pre \in Prefixes, f \in inputs.flags : New(l, pre, f)
    \/ \E l \in Loggers : NewFileLogger(l, PathOf(l), Llongfile + Ltime)
    \/ \E l \in Loggers, m \in inputs.maxsizes, f \in inputs.flags :
         NewRollFileLogger(l, PathOf(l), m, f)
    \/ \E t \in Threads, l \in Loggers, s \in inputs.messages : Debug(t, l, s)
    \/ \E t \in Threads : Lock(t)
    \/ \E t \in Threads : Caller(t)
    \/ \E t \in Threads : Relock(t)
    \/ \E t \in Threads : Build(t)
    \/ \E t \in Threads : RollFile(t)
    \/ \E t \in Threads : RollClose(t)
    \/ \E t \in Threads : RollRename(t)
    \/ \E t \in Threads : RollOpen(t)
    \/ \E t \in Threads : Write(t)
    \/ \E t \in Threads : Unlock(t)

\* the files the environment creates: the log files, and the names rollFile
\* opens after a failed Rename
LogNames == { FileName(p, << >>) : p \in Paths }
FallbackNames == { UnixName(p, t) : p \in Paths, t \in Times }

\* callers pass 1 MiB to NewRollFileLogger and a few long messages to Debug
BaseInputs ==
    [maxsizes |-> { MinMaxsize }, emits |-> MaxEmits, names |-> LogNames,
     loggers |-> NumLoggers, messages |-> Messages, flags |-> FlagInputs,
     callers |-> CallerResults]

Init == Start /\ inputs = BaseInputs

Spec == Init /\ [][Next]_vars

\* the constructors over every kind of maxsize argument, with few emits
InitFloor ==
    /\ Start
    /\ inputs = [BaseInputs EXCEPT !.maxsizes = MaxsizeInputs,
                                   !.emits = FloorEmits]

SpecFloor == InitFloor /\ [][Next]_vars

\* the scheduler runs every thread that can take a step, and sync.Mutex
\* hands the lock to a waiter (its starvation mode); sink and file
\* operations return.  Nothing obliges callers to call Debug, the program
\* to construct Loggers or the environment to create files.
Running(t) ==
    \/ Caller(t) \/ Build(t) \/ RollFile(t) \/ RollClose(t) \/ RollRename(t)
    \/ RollOpen(t) \/ Write(t) \/ Unlock(t)

Fairness ==
    \A t \in Threads :
        WF_vars(Running(t)) /\ SF_vars(Lock(t)) /\ SF_vars(Relock(t))

\* the program constructs FairLoggers Loggers
InitFair == Start /\ inputs = [BaseInputs EXCEPT !.loggers = FairLoggers]

SpecFair == InitFair /\ [][Next]_vars /\ Fairness

\* the environment also creates the files of the fallback names
InitNames ==
    /\ Start
    /\ inputs = [BaseInputs EXCEPT !.names = LogNames \cup FallbackNames]

SpecNames == InitNames /\ [][Next]_vars

\* one Debug call, over short messages, terminated or not, every kind of
\* flag word and every kind of caller path
InitText ==
    /\ Start
    /\ inputs = [BaseInputs EXCEPT !.emits = TextEmits,
                                   !.loggers = TextLoggers,
                                   !.messages = TextMessages,
                                   !.flags = TextFlags,
                                   !.callers = TextCallers]

SpecText == InitText /\ [][Next]_vars

\* ---------------------------------------------------------------- claims
\* positions of output between the (last) Lock and the return: the buffer is
\* built, rollFile runs and the buffer is written
BuildAndWrite == { "build", "roll", "close", "rename", "open", "write" }
InCall(t, l) == pc[t] # "idle" /\ frame[t].l = l
FileBacked(l) == made[l] /\ path[l] # ""

\* C1: at most one thread at a time is in the build-and-write phase of one
\* Logger, whatever the flags and the interleaving.
C1_OneBuilderPerLogger ==
    \A t1, t2 \in Threads :
        (t1 # t2 /\ pc[t1] \in BuildAndWrite /\ pc[t2] \in BuildAndWrite)
            => frame[t1].l # frame[t2].l

\* one thread builds while another one, on the same Logger, has released the
\* lock to resolve its caller
C1_Witness ==
    \E t1, t2 \in Threads :
        /\ t1 # t2
        /\ frame[t1].l = frame[t2].l
        /\ pc[t1] \in BuildAndWrite
        /\ pc[t2] = "relock"

\* the warning lines rollFile appended to the buffer during this call
Warnings(t) ==
    (IF frame[t].closeOK THEN << >>
     ELSE CloseWarning(Error("close", "file already closed")))
    \o (IF frame[t].renameOK THEN << >>
        ELSE RenameWarning(Error("rename", "failed")))

Quiescent(l) == \A t \in Threads : ~InCall(t, l)

C3_FieldsUnderLock ==
    \A t \in Threads :
        pc[t] \in BuildAndWrite => mu[frame[t].l] = t

\* a thread is in the window where it released the lock, while the Logger's
\* fields are in use by another thread
C3_Witness ==
    \E t1, t2 \in Threads :
        /\ pc[t1] = "relock"
        /\ pc[t2] \in { "roll", "open", "write" }
        /\ frame[t1].l = frame[t2].l
        /\ mu[frame[t1].l] = t2

\* C4 as stated: a sink is closed only by the rollFile of the Logger it was
\* opened for.
C4_ClosesOwnSinkOnly ==
    \A h \in 1 .. Len(handles) :
        handles[h].closedBy \in { 0, handles[h].owner }

\* C5: when every file operation so far succeeded, an emit on a file-backed
\* Logger rotates (one Close, one Rename, one OpenFile, the sink replaced) if
\* and only if size plus the pending line is greater than maxsize, and
\* otherwise does none of these.
C5_RotatesIffOverMaxsize ==
    \A t \in Threads :
        (pc[t] = "unlock" /\ FileBacked(frame[t].l) /\ ~stats[frame[t].l].ioFailed)
            => LET l == frame[t].l IN
               IF frame[t].before + frame[t].pending > maxsize[l]
               THEN frame[t].fsops = 3 /\ out[l] # frame[t].out0
               ELSE frame[t].fsops = 0 /\ out[l] = frame[t].out0

\* the size first exceeds maxsize in an emit that is not the first, and the
\* rotation succeeds
C5_Witness ==
    \E t \in Threads :
        /\ pc[t] = "unlock" /\ FileBacked(frame[t].l)
        /\ ~stats[frame[t].l].ioFailed
        /\ frame[t].before > 0
        /\ frame[t].before <= maxsize[frame[t].l]
        /\ frame[t].fsops = 3

\* C6 as stated: when Close and Rename succeeded (and nothing but the absence
\* of the file could refuse the OpenFile), the emit gets a new sink on the
\* original path, which exists afterwards.
C6_RotationCreatesFile ==
    \A t \in Threads :
        (/\ pc[t] = "unlock" /\ frame[t].fsops = 3
         /\ frame[t].closeOK /\ frame[t].renameOK /\ frame[t].openIO)
            => LET l == frame[t].l IN
               /\ frame[t].err.op # "open"
               /\ out[l] # frame[t].out0
               /\ handles[out[l]].name = FileName(path[l], << >>)
               /\ FileName(path[l], << >>) \in exists

\* C7: the bytes a file-backed Logger has written to one sink never exceed
\* maxsize plus the longest line it has emitted.
C7_GenerationBounded ==
    \A h \in 1 .. Len(handles) :
        handles[h].file
            => handles[h].written
                   <= maxsize[handles[h].owner] + stats[handles[h].owner].maxLine

\* a sink that holds more than maxsize bytes, and one that was rotated away
\* with bytes in it
C7_Witness ==
    /\ \E h \in 1 .. Len(handles) :
         handles[h].file /\ handles[h].written > maxsize[handles[h].owner]
    /\ \E h \in 1 .. Len(handles) :
         /\ handles[h].file /\ handles[h].written > 0
         /\ out[handles[h].owner] # h

\* C8 as stated: with no emit in progress, l.size is the number of bytes
\* committed to the current sink.
C8_SizeIsCommittedBytes ==
    \A l \in Loggers :
        (FileBacked(l) /\ Quiescent(l)) => size[l] = handles[out[l]].written

\* C9: a Logger made by New never rotates: none of its emits reaches
\* rollFile, closes, renames or opens anything, its sink is the writer it was
\* given and its size stays 0.
C9_NoPathNoRotation ==
    \A l \in Loggers :
        (made[l] /\ path[l] = "")
            => /\ size[l] = 0
               /\ out[l] = stats[l].given
               /\ \A t \in Threads :
                    InCall(t, l) => /\ frame[t].fsops = 0
                                    /\ pc[t] \notin { "roll", "close", "rename", "open" }
               /\ \A h \in 1 .. Len(handles) :
                    /\ handles[h].closedBy # l
                    /\ handles[h].owner = l => h = stats[l].given

\* a Logger made by New has written two lines
C9_Witness ==
    \E l \in Loggers :
        /\ made[l] /\ path[l] = ""
        /\ stats[l].writes = 2
        /\ Quiescent(l)

\* C10: the threshold of a file-backed Logger is the maxsize it was given
\* when that is at least 1 MiB and 10 MiB otherwise, at construction and ever
\* after, so it is never below 1 MiB.
C10_ThresholdFloor ==
    \A l \in Loggers :
        FileBacked(l)
            => /\ maxsize[l] = (IF stats[l].arg >= 1048576 THEN stats[l].arg
                                ELSE 10485760)
               /\ maxsize[l] >= 1048576

\* a Logger given 500 KiB has emitted a line
C10_Witness ==
    \E l \in Loggers :
        /\ FileBacked(l)
        /\ stats[l].arg = 512000
        /\ maxsize[l] = 10485760
        /\ stats[l].writes = 1

\* C11 as stated: an emit whose rotation failed at OpenFile returns that
\* error without having issued a Write, holds the lock until it returns and
\* not after, and leaves l.out and l.size as they were when OpenFile was
\* called, l.out being the old file, which is closed.
C11_OpenFailureKeepsClosedSink ==
    /\ \A t \in Threads :
         (pc[t] = "unlock" /\ frame[t].opened = "failed")
             => LET l == frame[t].l IN
                /\ frame[t].err.op = "open"
                /\ frame[t].wrote = 0
                /\ mu[l] = t
                /\ out[l] = frame[t].openOut /\ out[l] = frame[t].out0
                /\ size[l] = frame[t].openSize
                /\ ~handles[out[l]].open
    /\ \A t \in Threads, l \in Loggers : pc[t] = "idle" => mu[l] # t

\* C12 as stated: when rollFile's Close or Rename failed, the buffer is the
\* emit's line followed by one warning line per failure, OpenFile is called
\* on the original path whatever failed, and when it succeeds the new sink is
\* on the original path and receives line and warnings in the emit's one
\* Write.
C12_WarnAndReopenAtPath ==
    \A t \in Threads :
        (/\ pc[t] \in { "write", "unlock" } /\ frame[t].opened # ""
         /\ (~frame[t].closeOK \/ ~frame[t].renameOK))
            => LET l == frame[t].l
                   orig == FileName(path[l], << >>)
               IN  /\ buf[l] = OwnLine(t) \o Warnings(t)
                   /\ frame[t].newPath = orig
                   /\ frame[t].opened = "ok"
                        => /\ out[l] # frame[t].out0
                           /\ handles[out[l]].name = orig
                   /\ (frame[t].opened = "ok" /\ pc[t] = "unlock")
                        => /\ frame[t].wrote = 1
                           /\ frame[t].h = out[l]
                           /\ frame[t].data = OwnLine(t) \o Warnings(t)

\* C13: every emit issues at most one Write; the error of a failed Write is
\* what the emit returns; and the buffer an emit starts rollFile with, and
\* the chunk it writes, hold no byte of an earlier emit, failed, aborted or
\* not: they are its own line, the chunk with its own warning lines.
C13_AtMostOnce ==
    /\ \A t \in Threads :
         LET l == frame[t].l IN
         /\ pc[t] = "roll" => buf[l] = OwnLine(t)
         /\ pc[t] = "write" => frame[t].wrote = 0
         /\ pc[t] = "unlock"
              => /\ frame[t].wrote <= 1
                 /\ frame[t].wrote = 1
                      => /\ frame[t].data = OwnLine(t) \o Warnings(t)
                         /\ frame[t].writeOK <=> frame[t].err = NoError
                         /\ ~frame[t].writeOK => frame[t].err.op = "write"
    /\ \A l \in Loggers : stats[l].writes <= stats[l].calls

\* an emit has written its line after the Write of the emit before it, on
\* the same Logger, failed
C13_Witness ==
    \E t \in Threads :
        LET l == frame[t].l IN
        /\ pc[t] = "unlock"
        /\ frame[t].wrote = 1 /\ frame[t].writeOK
        /\ stats[l].calls = 2 /\ stats[l].writes = 2
        /\ stats[l].writeFailed
        /\ \A u \in Threads : u # t => ~InCall(u, l)

\* C14: under fair scheduling every emit returns, on every path; a thread
\* that is not in an emit holds no lock, so no lock is held when no emit is
\* in progress; and a thread about to call Unlock holds the lock.
C14_EmitsReturn ==
    /\ \A t \in Threads : (pc[t] # "idle") ~> (pc[t] = "idle")
    /\ [](\A t \in Threads, l \in Loggers : pc[t] = "idle" => mu[l] # t)
    /\ [](\A t \in Threads :
            pc[t] \in { "caller", "unlock" } => mu[frame[t].l] = t)

\* an emit waits for the lock a second time while the emit that holds it is
\* returning the error of a failed rotation
C14_Witness ==
    \E t1, t2 \in Threads :
        /\ pc[t1] = "relock" /\ pc[t2] = "unlock"
        /\ frame[t1].l = frame[t2].l
        /\ mu[frame[t2].l] = t2
        /\ frame[t2].opened = "failed"

\* the message, with a newline added unless it ends in one
Terminated(s) ==
    IF s # << >> /\ s[Len(s)] = NL THEN s ELSE s \o << NL >>

\* the header of the line of the call of thread t
OwnHeader(t) ==
    formatHeader(prefix[frame[t].l], flag[frame[t].l], frame[t].now,
                 frame[t].file, frame[t].line)

AfterLastSep(file) ==
    LET seps == { i \in 1 .. Len(file) : file[i] = Ch("/") } IN
    IF seps = { } THEN file
    ELSE SubSeq(file, (CHOOSE i \in seps : \A j \in seps : j <= i) + 1, Len(file))

\* C16 as stated: in a line written with Lshortfile or Llongfile set, prefix,
\* date and time are followed by the file component and a colon: with
\* Lshortfile the part of the caller's path after its last '/', wherever
\* that is, and with Llongfile alone the whole path.
C16_ShortFileIsLastElement ==
    \A t \in Threads :
        (pc[t] = "unlock" /\ frame[t].wrote = 1 /\ FileFlags(frame[t].l))
            => LET l == frame[t].l
                   upTo == formatHeader(prefix[l], flag[l] % Llongfile,
                                        frame[t].now, << >>, 0)
                   name == IF HasFlag(flag[l], Lshortfile)
                           THEN AfterLastSep(frame[t].file)
                           ELSE frame[t].file
               IN  SubSeq(frame[t].data, 1, Len(upTo) + Len(name) + 1)
                       = upTo \o name \o << Ch(":") >>

\* C17 as stated: a constructor call that returned an error has created no
\* Logger state; one that returned a file-backed Logger has opened the file
\* at its path as the Logger's sink; and the first Debug call on that
\* Logger, the environment refusing nothing, returns no error after one
\* Write of its line to a file at that path.
C17_ConstructThenDebug ==
    /\ \A l \in Loggers :
         /\ stats[l].ctor = "error"
              => /\ ~made[l] /\ out[l] = 0 /\ path[l] = "" /\ maxsize[l] = 0
                 /\ \A h \in 1 .. Len(handles) : handles[h].owner # l
         /\ (stats[l].ctor = "ok" /\ path[l] # "")
              => /\ made[l]
                 /\ handles[stats[l].given].file
                 /\ handles[stats[l].given].name = FileName(path[l], << >>)
    /\ \A t \in Threads :
         (/\ pc[t] = "unlock" /\ FileBacked(frame[t].l)
          /\ stats[frame[t].l].calls = 1 /\ frame[t].envOK)
             => /\ frame[t].err = NoError
                /\ frame[t].wrote = 1
                /\ handles[frame[t].h].name = FileName(path[frame[t].l], << >>)
                /\ frame[t].data = OwnLine(t) \o Warnings(t)

\* C18 as stated, acquiring the lock being the Lock at the entry of output:
\* a call that writes to a Logger's sink acquired the Logger's lock after
\* the call that wrote before it.
C18_WritesInEntryLockOrder ==
    \A t \in Threads :
        (pc[t] = "unlock" /\ frame[t].wrote = 1)
            => frame[t].prevFirst < frame[t].first

\* C18 amended: a call that writes to a Logger's sink made its last
\* acquisition of the lock (the Lock after runtime.Caller when a file flag is
\* set, else the Lock at entry) after the last acquisition of the call that
\* wrote before it.
C18_WritesInLastLockOrder ==
    \A t \in Threads :
        (pc[t] = "unlock" /\ frame[t].wrote = 1)
            => frame[t].prevLast < frame[t].last

\* of two calls on one Logger, the one that entered the lock first has
\* written second
C18_Witness ==
    \E t \in Threads :
        /\ pc[t] = "unlock" /\ frame[t].wrote = 1
        /\ frame[t].prevFirst > frame[t].first
        /\ frame[t].prevLast > 0

\* C19: an emit whose rotation succeeded issues its one Write on the new
\* sink, not on the sink it started with; an accepted Write is the first
\* content of the new sink; and l.size is then the length of the chunk the
\* emit wrote, its line and the warning lines of its rotation.
C19_RotateBeforeWrite ==
    \A t \in Threads :
        LET l == frame[t].l IN
        /\ (pc[t] = "write" /\ frame[t].opened = "ok")
             => /\ out[l] # frame[t].out0
                /\ frame[t].wrote = 0
                /\ size[l] = ByteLen(buf[l])
        /\ (pc[t] = "unlock" /\ frame[t].opened = "ok")
             => /\ frame[t].wrote = 1
                /\ frame[t].h = out[l] /\ frame[t].h # frame[t].out0
                /\ frame[t].data = OwnLine(t) \o Warnings(t)
                /\ size[l] = ByteLen(frame[t].data)
                /\ handles[frame[t].h].written
                       = (IF frame[t].writeOK THEN ByteLen(frame[t].data) ELSE 0)

\* a second emit has rotated: the Rename failed, the file of the fallback
\* name was opened and the line and the warning line were written to it
C19_Witness ==
    \E t \in Threads :
        /\ pc[t] = "unlock" /\ frame[t].opened = "ok"
        /\ frame[t].writeOK
        /\ ~frame[t].renameOK
        /\ frame[t].before > 0

\* C20: when at most one Logger is file-backed, a thread about to call
\* Write on that Logger's sink finds the sink open, also after rotations
\* that failed at OpenFile; and no Write of that Logger was refused but by
\* the environment.
C20_NoWriteOnClosedSink ==
    (\A l1, l2 \in Loggers : (FileBacked(l1) /\ FileBacked(l2)) => l1 = l2)
        => \A t \in Threads :
               /\ (pc[t] = "write" /\ FileBacked(frame[t].l))
                    => handles[out[frame[t].l]].open
               /\ (/\ pc[t] = "unlock" /\ FileBacked(frame[t].l)
                   /\ frame[t].wrote = 1)
                    => handles[frame[t].h].open

\* the only file-backed Logger has written a line to a new sink, in an emit
\* that found its old sink closed by the failed rotation of the emit before
C20_Witness ==
    /\ \A l1, l2 \in Loggers : (FileBacked(l1) /\ FileBacked(l2)) => l1 = l2
    /\ \E t \in Threads :
         /\ pc[t] = "unlock" /\ FileBacked(frame[t].l)
         /\ ~frame[t].closeOK
         /\ frame[t].opened = "ok" /\ frame[t].writeOK
         /\ handles[frame[t].out0].closedBy = frame[t].l

=============================================================================
